---- MODULE Spec2Model ----
(***************************************************************************)
(* Genie study application: the read-aloud (speech) controllers of the     *)
(* Summary, Flashcard and Concept Explainer panels, the three module-level *)
(* audio engines they drive, and the tool selection of StudyInterface that *)
(* mounts and unmounts the panels.                                         *)
(*                                                                         *)
(* Scheduling model: one JavaScript event loop.  Every action below is one *)
(* run-to-completion segment of a handler (from an event or a promise      *)
(* resumption up to the next await on the network or on the audio device). *)
(* The await on decodeAudioData inside playAudio resumes in a microtask     *)
(* with no event in between, so playAudio is one segment.                  *)
(***************************************************************************)
EXTENDS Integers, FiniteSets, Sequences, TLC

\* ---------------------------------------------------------------- bounds
NCards == 1
MaxSources == 2
MaxSpeech == 1
MaxGen == 2
MaxTimers == 1
MaxInput == 2
MaxFragments == 2
MaxTranscript == 6
MaxStreams == 2
MaxSamples == 2
MaxQuestions == 3
MaxDeck == 3
MaxClicks == 2

\* ------------------------------------------------------------ vocabulary
Summary == "Summary"
Flashcards == "Flashcards"
Quiz == "Quiz"
Chat == "Chat"
ConceptExplainer == "Explain"
NoTool == "null"

StudyTool == {Summary, Flashcards, Quiz, Chat, ConceptExplainer}

\* The three source files that each declare their own audioContext and
\* currentSource, named by the panel that uses them.
Modules == {Summary, Flashcards, ConceptExplainer}

\* A text (a string) is a pair <<kind, n>>: equal pairs are equal strings.
\* NoText is the empty string, Undefined the undefined that response.text
\* is for a response without text, Null the null of currentlyPlaying.  The
\* three are falsy and differ from each other.
NoText == <<"", 0>>
Undefined == <<"undefined", 0>>
Null == <<"null", 0>>
Truthy(text) == text \notin {NoText, Undefined, Null}
\* What generateSummary and explainConcept may return, which is
\* response.text: the empty string, undefined, or one of two different
\* texts each (the handlers never look inside a text).
SummaryTexts == {NoText, Undefined, <<"summary", 1>>, <<"summary", 2>>}
ExplanationTexts == {NoText, Undefined, <<"explanation", 1>>, <<"explanation", 2>>}

\* The name of a member of Object.prototype.  `obj[text]` finds that member
\* when obj is a plain object without an own property of that name.
Constructor == <<"constructor", 0>>
Inherited(text) == text[1] = "constructor"

\* A flashcard: { term: string; definition: string }.  The plain card i has
\* two strings of its own.  A term may also be the empty string, an
\* inherited name or the string of the card's definition; a definition may
\* also be the empty string.  CardsAt(i): the cards that differ from the
\* plain card i in at most one of the two texts.
PlainCard(i) == [term |-> <<"term", i>>, definition |-> <<"definition", i>>]
TermsOf(i) == {<<"term", i>>, NoText, Constructor, <<"definition", i>>}
CardsAt(i) ==
    {[PlainCard(i) EXCEPT !.term = t] : t \in TermsOf(i)}
        \cup {[PlainCard(i) EXCEPT !.definition = NoText]}

\* The decks of n cards: the plain deck; for one card also every other
\* card; for two cards also the deck whose second card repeats the term of
\* the first.
PlainDeck(n) == [i \in 1..n |-> PlainCard(i)]
DecksOf(n) ==
    IF n = 1 THEN {<<c>> : c \in CardsAt(1)}
    ELSE IF n = 2 THEN {PlainDeck(n), [PlainDeck(n) EXCEPT ![n].term = <<"term", 1>>]}
    ELSE {PlainDeck(n)}

\* Every text a card of the model carries.
CardTexts == UNION {TermsOf(i) : i \in 1..(NCards + MaxDeck)}

\* NoPayload is undefined (nothing cached); the payload the speech service
\* returns for a text is audio of that text.
NoPayload == <<"undefined", Null>>
SpeechOf(text) == <<"pcm", text>>

\* Payloads that speak a text but cannot be decoded: a string that is not
\* base64 (atob throws), and base64 of an odd number of bytes (the
\* Int16Array constructor throws).
Undecodable(text) == {<<"malformed", text>>, <<"odd", text>>}

\* The member of Object.prototype that `audioCache[text]` finds for an
\* inherited name: a function, whose string is not base64 (atob throws).
Member(text) == <<"function", text>>

\* decode, then decodeAudioData: whether they return a buffer.
Decodes(payload) == payload[1] = "pcm"

VARIABLES
    studyContent,     \* App: TRUE when a document is loaded (StudyInterface shown)
    activeTool, isLoading, error, summary, flashcards, quizQuestions,
    generations,      \* outstanding generateSummary/Flashcards/Quiz calls, per tool
    sum,              \* state of the mounted Summary component
    fc,               \* state of the mounted Flashcard component
    ce,               \* state of the mounted ConceptExplainer component
    timers,           \* pending setTimeout callbacks of the Flashcard component:
                      \* [delta, length], length being the flashcards.length of
                      \* the render whose handler was clicked
    speech,           \* outstanding generateSpeech calls (suspended handlers)
    audioContext, currentSource,   \* module-level engine globals, per module
    sources,          \* AudioBufferSourceNodes whose ended event has not fired yet
    synthDone,        \* history: texts synthesized for the mounted panel's current subject
    chat,             \* state of the mounted Chat component
    streams,          \* handleSendMessage calls suspended on their chat stream
    codec,            \* a payload on its way through decode and decodeAudioData
    upload,           \* the React root, App.appError, and the LandingPage with its
                      \* handleFileChange call
    quiz              \* state of the mounted Quiz component

vars == <<studyContent, activeTool, isLoading, error, summary, flashcards, quizQuestions,
          generations, sum, fc, ce, timers, speech, audioContext, currentSource, sources,
          synthDone, chat, streams, codec, upload, quiz>>

appVars == <<studyContent, activeTool, isLoading, error, summary, flashcards, quizQuestions,
             generations, upload>>

\* The state of the three panels that read aloud, and of the Chat panel.
audioVars == <<sum, fc, ce, timers, speech, audioContext, currentSource, sources, synthDone>>
chatVars == <<chat, streams>>

\* The texts of card i of the deck in `flashcards`.
Term(i) == flashcards[i + 1].term
Definition(i) == flashcards[i + 1].definition

\* ---------------------------------------------------------- audio engine
\* The engine globals of all three modules as one value.
Engine == [ctx |-> audioContext, cur |-> currentSource, src |-> sources]

SourceIds == 1..MaxSources
UsedIds(src) == {s.id : s \in src}
FreeId(src) == CHOOSE i \in SourceIds : i \notin UsedIds(src) /\ \A j \in 1..(i - 1) : j \in UsedIds(src)
HasRoom(src) == UsedIds(src) # SourceIds

\* Mutant of Stopped: stopping a source also cancels its ended event.
StoppedSilently(src, id) == {s \in src : s.id # id}

\* source.stop(): the node goes silent at once; its ended event is queued.
Stopped(src, id) == {IF s.id = id THEN [s EXCEPT !.st = "stopping"] ELSE s : s \in src}

getAudioContext(e, m) == [e EXCEPT !.ctx[m] = "running"]

\* Mutant of stopAudio: the source is stopped, the handle is kept.
stopAudioKeepsHandle(e, m) ==
    IF e.cur[m] # 0
    THEN [e EXCEPT !.src = Stopped(e.src, e.cur[m])]
    ELSE e

stopAudio(e, m) ==
    IF e.cur[m] # 0
    THEN [e EXCEPT !.src = Stopped(e.src, e.cur[m]), !.cur[m] = 0]
    ELSE e

\* playAudio up to the returned promise.  cb is what the completion of the
\* source still does to its component: "onEnd" (the onEnd state setter, the
\* cache-hit branch awaits it), "finally" (onEnd, then the finally of the
\* cache-miss branch that awaits it), "none" (the component is unmounted,
\* its state setters are no-ops).
playAudio(e, m, cb) ==
    LET e1 == IF e.cur[m] # 0 THEN [e EXCEPT !.src = Stopped(e.src, e.cur[m])] ELSE e
        e2 == getAudioContext(e1, m)
        id == FreeId(e2.src)
        source == [id |-> id, mod |-> m, st |-> "playing", cb |-> cb]
    IN [e2 EXCEPT !.src = e2.src \cup {source}, !.cur[m] = id]

\* playAudio when decode or decodeAudioData throws: the current source has
\* been stopped (the handle is left in place) and the context exists; the
\* returned promise is rejected.
playAudioRejects(e, m) ==
    LET e1 == IF e.cur[m] # 0 THEN [e EXCEPT !.src = Stopped(e.src, e.cur[m])] ELSE e
    IN getAudioContext(e1, m)

\* The first statement of source.onended.
onendedEngine(e, s) ==
    [e EXCEPT !.cur[s.mod] = IF e.cur[s.mod] = s.id THEN 0 ELSE e.cur[s.mod],
              !.src = e.src \ {s}]

SetEngine(e) ==
    /\ audioContext' = e.ctx
    /\ currentSource' = e.cur
    /\ sources' = e.src

\* ------------------------------------------------------- component state
\* useState/useRef initial values of the three panels (also the value the
\* variable holds while its component is not mounted).
sumInit == [isGeneratingSpeech |-> FALSE, isPlaying |-> FALSE, audioDataRef |-> NoPayload]

fcInit == [currentIndex |-> 0, isFlipped |-> FALSE, audioCache |-> <<>>,
           isGeneratingSpeech |-> FALSE, currentlyPlaying |-> Null]

ceInit == [concept |-> FALSE, explanation |-> NoText, isLoading |-> FALSE, error |-> FALSE,
           isGeneratingSpeech |-> FALSE, isPlaying |-> FALSE, audioDataRef |-> NoPayload]

NoGenerations == [t \in {Summary, Flashcards, Quiz} |-> 0]

\* Chat component.  A string is the sequence of its characters; the two
\* fixed messages are one symbol each.
RECURSIVE Strings(_, _)
Strings(alphabet, n) ==
    IF n = 0 THEN {<<>>}
    ELSE LET shorter == Strings(alphabet, n - 1)
         IN shorter \cup {Append(w, c) : w \in shorter, c \in alphabet}

\* What the user can type into the input, and the chunk.text values a
\* stream can deliver: a string, or undefined for a chunk without a text
\* part (NoChunkText, which is no sequence of characters).
InputTexts == Strings({" ", "q"}, MaxInput)
NoChunkText == <<"undefined">>
FragmentTexts == {<<>>, <<"a">>, NoChunkText}

\* The string that `content += chunkText` appends: chunkText itself, and
\* for undefined the nine characters of "undefined".
StringOf(chunkText) ==
    IF chunkText = NoChunkText
    THEN <<"u", "n", "d", "e", "f", "i", "n", "e", "d">>
    ELSE chunkText

\* Quiz component.  A question is given by its correctAnswer, one of its
\* options; a quiz is the sequence of its questions.  Every question has
\* the same option strings.
Options == {"A", "B"}
QuizSets == Strings(Options, MaxQuestions) \ {<<>>}

\* The decks generateFlashcards can return: JSON.parse of the response, an
\* array of any length (up to MaxDeck cards), the empty one included.
Decks == UNION {DecksOf(n) : n \in 0..MaxDeck}

\* What a generate call can return for a tool; generateQuiz too can return
\* the empty array.
Results(tool) ==
    IF tool = Summary THEN SummaryTexts
    ELSE IF tool = Quiz THEN QuizSets \cup {<<>>}
    ELSE Decks

\* The results of the specification of all three read-aloud panels: the
\* decks are the plain ones of up to NCards cards.
StudyResults(tool) ==
    IF tool = Flashcards THEN {PlainDeck(n) : n \in 0..NCards} ELSE Results(tool)

\* checked is history: the number of answers checked since the component
\* was mounted or the quiz restarted.
quizInit == [currentIndex |-> 0, selectedAnswer |-> "null", isAnswered |-> FALSE,
             score |-> 0, showResults |-> FALSE, checked |-> 0]

greeting == [role |-> "model", content |-> <<"Hi! I'm Genie. Ask me anything about your document.">>]
errorMessage == [role |-> "model", content |-> <<"Sorry, I encountered an error. Please try again.">>]

\* useState initial values, and the state after the effect on [studyContent].
chatInit == [session |-> FALSE, messages |-> <<>>, userInput |-> <<>>, isLoading |-> FALSE]
chatMounted == [chatInit EXCEPT !.session = TRUE, !.messages = <<greeting>>]

\* renderContent of App and of StudyInterface: the component in the main area.
Panel(sc, ld, er, tool) ==
    IF ~sc THEN "Landing"
    ELSE IF ld THEN "Loader"
    ELSE IF er THEN "Error"
    ELSE tool

\* A render that threw has removed the whole tree (there is no error
\* boundary): nothing is shown and no handler can be reached.
PanelNow ==
    IF upload.root = "unmounted" THEN "Unmounted"
    ELSE Panel(studyContent, isLoading, error, activeTool)

\* Outstanding generateSpeech calls: [id, panel, text, live, sup].  MaxSpeech
\* bounds the calls of unmounted components that are still outstanding; a
\* mounted component may have one more, and a second one if its handler
\* issues it.
SpeechIds == 1..(MaxSpeech + 1)
FreeSpeechId == CHOOSE i \in SpeechIds :
    i \notin {r.id : r \in speech} /\ \A j \in 1..(i - 1) : j \in {r.id : r \in speech}
SpeechRoom ==
    /\ {r.id : r \in speech} # SpeechIds
    /\ Cardinality({r \in speech : ~r.live}) < MaxSpeech

\* History flag of a suspended read-aloud handler: the user has superseded
\* it (flipped or changed the card, asked for a new explanation, the summary
\* changed, or the panel was left) while its synthesis was outstanding.
Superseded(reqs, p) == {IF r.panel = p /\ r.live THEN [r EXCEPT !.sup = TRUE] ELSE r : r \in reqs}

\* The component of panel p is unmounted: the state setters its suspended
\* handlers and its sources' onEnd callbacks still hold become no-ops.
OrphanRequests(reqs, p) ==
    {IF r.panel = p /\ r.live THEN [r EXCEPT !.live = FALSE, !.sup = TRUE] ELSE r : r \in reqs}
OrphanSources(src, p) == {IF s.mod = p THEN [s EXCEPT !.cb = "none"] ELSE s : s \in src}

\* Effect cleanups on unmount: Summary and ConceptExplainer stop their
\* module's audio; Flashcard registers no cleanup.
UnmountEngine(e, p) ==
    LET e1 == IF p \in {Summary, ConceptExplainer} THEN stopAudio(e, p) ELSE e
    IN [e1 EXCEPT !.src = OrphanSources(e1.src, p)]

\* Effects that run on mount: Summary's [summary] effect and Flashcard's
\* [currentIndex, isFlipped] effect both call stopAudio.
MountEngine(e, p) == IF p \in {Summary, Flashcards} THEN stopAudio(e, p) ELSE e

\* The Chat component is unmounted: the handleSendMessage calls suspended on
\* their stream go on, holding the state setters of the unmounted instance.
OrphanStreams(strs) == {[s EXCEPT !.live = FALSE] : s \in strs}

Remount(old, new) ==
    /\ SetEngine(MountEngine(UnmountEngine(Engine, old), new))
    /\ speech' = OrphanRequests(speech, old)
    /\ sum' = sumInit
    /\ fc' = fcInit
    /\ ce' = ceInit
    /\ timers' = <<>>
    /\ synthDone' = {}
    /\ chat' = (IF new = Chat THEN chatMounted ELSE chatInit)
    /\ streams' = OrphanStreams(streams)
    /\ codec' = codec
    /\ quiz' = quizInit

\* Summary's useEffect on [summary] while the component stays mounted.
SummaryChanged ==
    /\ SetEngine(stopAudio(Engine, Summary))
    /\ sum' = [sum EXCEPT !.isPlaying = FALSE, !.audioDataRef = NoPayload]
    /\ speech' = Superseded(speech, Summary)
    /\ synthDone' = {}
    /\ UNCHANGED <<fc, ce, timers, chatVars, codec, quiz>>

\* What a change of the StudyInterface/App state does to the panels.
PanelEffects ==
    IF PanelNow' # PanelNow THEN Remount(PanelNow, PanelNow')
    ELSE IF PanelNow = Summary /\ summary' # summary THEN SummaryChanged
    ELSE UNCHANGED <<audioVars, chatVars, codec, quiz>>

\* ------------------------------------------------------- audio decoding
\* A base64 string is the sequence of its characters, each character given
\* by its index in the base64 alphabet (0..63); the padding "=" is 64.  A
\* byte is a number in 0..255.
Pad == 64

\* window.atob on a well-padded or unpadded string: the bytes (the char codes
\* of the binary string); atobThrows tells when it throws instead.
RECURSIVE atobBytes(_)
atobBytes(chars) ==
    IF Len(chars) >= 4
    THEN LET n == chars[1] * 262144 + chars[2] * 4096 + chars[3] * 64 + chars[4]
         IN <<n \div 65536, (n \div 256) % 256, n % 256>> \o atobBytes(SubSeq(chars, 5, Len(chars)))
    ELSE IF Len(chars) = 3
    THEN LET n == chars[1] * 4096 + chars[2] * 64 + chars[3]
         IN <<n \div 1024, (n \div 4) % 256>>
    ELSE IF Len(chars) = 2
    THEN <<(chars[1] * 64 + chars[2]) \div 16>>
    ELSE <<>>

atobData(base64) ==
    LET len == Len(base64)
    IN IF len > 0 /\ len % 4 = 0 /\ base64[len] = Pad
       THEN IF base64[len - 1] = Pad
            THEN SubSeq(base64, 1, len - 2)
            ELSE SubSeq(base64, 1, len - 1)
       ELSE base64

atobThrows(base64) ==
    LET data == atobData(base64)
    IN Len(data) % 4 = 1 \/ \E i \in 1..Len(data) : data[i] = Pad

atob(base64) == atobBytes(atobData(base64))

\* decode: the Uint8Array of the char codes of atob(base64).
decode(base64) == atob(base64)

\* Mutant of Int16At: the two bytes are read most significant first.
Int16AtBigEndian(data, i) ==
    LET u == data[2 * i] + 256 * data[2 * i - 1]
    IN IF u >= 32768 THEN u - 65536 ELSE u

\* Element i (from 1) of new Int16Array(data.buffer): two bytes, least
\* significant first, read as a signed number.
Int16At(data, i) ==
    LET u == data[2 * i - 1] + 256 * data[2 * i]
    IN IF u >= 32768 THEN u - 65536 ELSE u

\* new Int16Array(data.buffer): the byte length must be a multiple of 2,
\* or the constructor throws a RangeError.
Int16ArrayThrows(data) == Len(data) % 2 # 0

Int16Array(data) == [i \in 1..(Len(data) \div 2) |-> Int16At(data, i)]

\* ctx.createBuffer rejects a buffer of no frames with a NotSupportedError.
createBufferThrows(frameCount) == frameCount = 0

\* decodeAudioData.  A sample value x / 32768.0 is the pair <<x, 32768>>;
\* ctx.createBuffer returns a buffer of frameCount frames per channel.
decodeAudioData(data, sampleRate, numChannels) ==
    LET dataInt16 == Int16Array(data)
        frameCount == Len(dataInt16) \div numChannels
    IN [numberOfChannels |-> numChannels, length |-> frameCount,
        sampleRate |-> sampleRate,
        channelData |-> [channel \in 0..(numChannels - 1) |->
                            [i \in 1..frameCount |->
                                <<dataInt16[(i - 1) * numChannels + channel + 1], 32768>>]]]

\* The samples a payload is made from, and the payload made from them:
\* each sample as two bytes, least significant first, the bytes in base64.
Samples == {-32768, -256, -1, 0, 1, 256, 32767}

RECURSIVE SampleSeqs(_)
SampleSeqs(n) ==
    IF n = 0 THEN {<<>>}
    ELSE LET shorter == SampleSeqs(n - 1)
         IN shorter \cup {Append(w, x) : w \in shorter, x \in Samples}

RECURSIVE LittleEndian(_)
LittleEndian(samples) ==
    IF samples = <<>> THEN <<>>
    ELSE LET u == (Head(samples) + 65536) % 65536
         IN <<u % 256, u \div 256>> \o LittleEndian(Tail(samples))

RECURSIVE btoa(_)
btoa(data) ==
    IF Len(data) >= 3
    THEN LET n == data[1] * 65536 + data[2] * 256 + data[3]
         IN <<n \div 262144, (n \div 4096) % 64, (n \div 64) % 64, n % 64>>
            \o btoa(SubSeq(data, 4, Len(data)))
    ELSE IF Len(data) = 2
    THEN LET n == data[1] * 256 + data[2]
         IN <<n \div 1024, (n \div 16) % 64, (n % 16) * 4, Pad>>
    ELSE IF Len(data) = 1
    THEN <<data[1] \div 4, (data[1] % 4) * 16, Pad, Pad>>
    ELSE <<>>

NoBuffer == [numberOfChannels |-> 0, length |-> 0, sampleRate |-> 0, channelData |-> <<>>]
NoCodec == [stage |-> "idle", samples |-> <<>>, base64 |-> <<>>,
            buffer |-> NoBuffer, thrown |-> "none"]

\* The first two statements that playAudio applies to a payload: decode,
\* then decodeAudioData at 24000 Hz with one channel.
DecodePayload ==
    /\ codec.stage = "payload"
    /\ LET decodedBytes == decode(codec.base64)
       IN codec' = IF atobThrows(codec.base64)
                   THEN [codec EXCEPT !.stage = "thrown", !.thrown = "InvalidCharacterError"]
                   ELSE IF Int16ArrayThrows(decodedBytes)
                   THEN [codec EXCEPT !.stage = "thrown", !.thrown = "RangeError"]
                   ELSE IF createBufferThrows(Len(Int16Array(decodedBytes)) \div 1)
                   THEN [codec EXCEPT !.stage = "thrown", !.thrown = "NotSupportedError"]
                   ELSE [codec EXCEPT !.stage = "buffer",
                                      !.buffer = decodeAudioData(decodedBytes, 24000, 1)]
    /\ UNCHANGED <<appVars, audioVars, chatVars, quiz>>

\* ------------------------------------------------- App and StudyInterface
\* No upload is under way: appError is null, and the LandingPage, where it
\* is mounted, is as constructed.  file, fullText and ocr are the locals of
\* the handleFileChange call (ocr: the fallback branch was entered).
NoUpload == [root |-> "mounted", pc |-> "idle", isProcessing |-> FALSE, appError |-> FALSE,
             file |-> "none", fullText |-> <<>>, ocr |-> FALSE]

Init ==
    /\ studyContent = FALSE
    /\ activeTool = NoTool
    /\ isLoading = FALSE
    /\ error = FALSE
    /\ summary = NoText
    /\ flashcards = <<>>
    /\ quizQuestions = <<>>
    /\ generations = NoGenerations
    /\ sum = sumInit
    /\ fc = fcInit
    /\ ce = ceInit
    /\ timers = <<>>
    /\ speech = {}
    /\ audioContext = [m \in Modules |-> "null"]
    /\ currentSource = [m \in Modules |-> 0]
    /\ sources = {}
    /\ synthDone = {}
    /\ chat = chatInit
    /\ streams = {}
    /\ codec = NoCodec
    /\ upload = NoUpload
    /\ quiz = quizInit

\* What App.handleFileSelect sets beside appError; then StudyInterface mounts
\* and its initial effect runs handleToolSelect(Summary) up to the await.
onFileSelect ==
    /\ ~studyContent
    /\ studyContent' = TRUE
    /\ activeTool' = Summary
    /\ isLoading' = TRUE
    /\ error' = FALSE
    /\ summary' = NoText
    /\ flashcards' = <<>>
    /\ quizQuestions' = <<>>
    /\ generations' = [NoGenerations EXCEPT ![Summary] = 1]
    /\ PanelEffects

\* A whole successful upload: App.handleFileSelect is called with the text.
handleFileSelect ==
    /\ upload' = [upload EXCEPT !.appError = FALSE]
    /\ onFileSelect

\* App.handleReset: StudyInterface is unmounted; whatever its outstanding
\* generate calls later set is set on an unmounted component.
handleReset ==
    /\ PanelNow # "Unmounted"
    /\ studyContent
    /\ studyContent' = FALSE
    /\ activeTool' = NoTool
    /\ isLoading' = FALSE
    /\ error' = FALSE
    /\ summary' = NoText
    /\ flashcards' = <<>>
    /\ quizQuestions' = <<>>
    /\ generations' = NoGenerations
    /\ upload' = NoUpload
    /\ PanelEffects

Outstanding == generations[Summary] + generations[Flashcards] + generations[Quiz]

\* Mutant of Generated: no tool counts as generated.
GeneratedNever(tool) == FALSE

\* The tests of handleToolSelect for content that is already generated.
Generated(tool) ==
    \/ tool = Summary /\ Truthy(summary)
    \/ tool = Flashcards /\ Len(flashcards) > 0
    \/ tool = Quiz /\ Len(quizQuestions) > 0

\* handleToolSelect up to its await (or to its return); selecting the
\* active tool returns at the first line.
handleToolSelect(tool) ==
    /\ PanelNow # "Unmounted"
    /\ studyContent
    /\ IF tool = activeTool
       THEN UNCHANGED vars
       ELSE /\ activeTool' = tool
            /\ IF tool \in {Chat, ConceptExplainer} \/ Generated(tool)
               THEN UNCHANGED <<isLoading, error, generations>>
               ELSE /\ Outstanding < MaxGen
                    /\ isLoading' = TRUE
                    /\ error' = FALSE
                    /\ generations' = [generations EXCEPT ![tool] = @ + 1]
            /\ UNCHANGED <<studyContent, summary, flashcards, quizQuestions, upload>>
            /\ PanelEffects

\* Rendering the card view reads currentCard.term, and rendering the
\* question view reads currentQuestion.question: they throw when
\* flashcards[currentIndex], questions[currentIndex] is undefined.  The
\* empty deck and the empty quiz are rendered as a message, and the results
\* view does not read the question.
FlashcardRenderThrows(deck, index) == deck # <<>> /\ index >= Len(deck)
QuizRenderThrows(questions, q) ==
    questions # <<>> /\ ~q.showResults /\ q.currentIndex >= Len(questions)

\* handleToolSelect from the await on: the generate call returned value v.
\* A Flashcard or Quiz component that is mounted (a second call for its
\* tool was outstanding) keeps its state and is rendered with the new
\* array; when that render throws, the tree is removed and the setters of
\* the calls still outstanding are no-ops.
GenerationReturns(tool, v) ==
    /\ generations[tool] > 0
    /\ LET throws == \/ tool = Flashcards /\ PanelNow = Flashcards
                        /\ FlashcardRenderThrows(v, fc.currentIndex)
                     \/ tool = Quiz /\ PanelNow = Quiz /\ QuizRenderThrows(v, quiz)
       IN /\ generations' = IF throws THEN NoGenerations
                                      ELSE [generations EXCEPT ![tool] = @ - 1]
          /\ upload' = IF throws THEN [upload EXCEPT !.root = "unmounted"] ELSE upload
    /\ summary' = IF tool = Summary THEN v ELSE summary
    /\ flashcards' = IF tool = Flashcards THEN v ELSE flashcards
    /\ quizQuestions' = IF tool = Quiz THEN v ELSE quizQuestions
    /\ isLoading' = FALSE
    /\ UNCHANGED <<studyContent, activeTool, error>>
    /\ PanelEffects

\* handleToolSelect from the await on: the generate call threw.
GenerationFails(tool) ==
    /\ generations[tool] > 0
    /\ generations' = [generations EXCEPT ![tool] = @ - 1]
    /\ error' = TRUE
    /\ isLoading' = FALSE
    /\ UNCHANGED <<studyContent, activeTool, summary, flashcards, quizQuestions, upload>>
    /\ PanelEffects

\* ------------------------------------------------------ Summary component
\* Summary.handlePlay up to its first await (or to its return).  The button
\* exists when summary is truthy and is disabled while isGeneratingSpeech.
SummaryHandlePlay ==
    /\ PanelNow = Summary
    /\ Truthy(summary)
    /\ ~sum.isGeneratingSpeech
    /\ IF sum.isPlaying
       THEN /\ SetEngine(stopAudio(Engine, Summary))
            /\ sum' = [sum EXCEPT !.isPlaying = FALSE]
            /\ UNCHANGED speech
       ELSE IF sum.audioDataRef # NoPayload
       THEN /\ sum' = [sum EXCEPT !.isPlaying = TRUE]
            /\ IF Decodes(sum.audioDataRef)
               THEN HasRoom(sources) /\ SetEngine(playAudio(Engine, Summary, "onEnd"))
               ELSE SetEngine(playAudioRejects(Engine, Summary))
            /\ UNCHANGED speech
       ELSE /\ SpeechRoom
            /\ sum' = [sum EXCEPT !.isGeneratingSpeech = TRUE]
            /\ speech' = speech \cup {[id |-> FreeSpeechId, panel |-> Summary, text |-> summary,
                                       live |-> TRUE, sup |-> FALSE]}
            /\ UNCHANGED <<audioContext, currentSource, sources>>
    /\ UNCHANGED <<appVars, chatVars, codec, quiz, fc, ce, timers, synthDone>>

\* ---------------------------------------------------- Flashcard component
currentCard == [term |-> Term(fc.currentIndex), definition |-> Definition(fc.currentIndex)]

\* Mutant of CardEffect: the audio is stopped but the playing mark is kept.
CardEffectKeepsMark(f) ==
    /\ SetEngine(stopAudio(Engine, Flashcards))
    /\ fc' = f
    /\ speech' = Superseded(speech, Flashcards)

\* The useEffect on [currentIndex, isFlipped]; f is the component state
\* after the state update that triggered it.
CardEffect(f) ==
    /\ SetEngine(stopAudio(Engine, Flashcards))
    /\ fc' = [f EXCEPT !.currentlyPlaying = Null]
    /\ speech' = Superseded(speech, Flashcards)

flipCard ==
    /\ PanelNow = Flashcards
    /\ flashcards # <<>>
    /\ CardEffect([fc EXCEPT !.isFlipped = ~@])
    /\ UNCHANGED <<appVars, chatVars, codec, quiz, sum, ce, timers, synthDone>>

\* goToNextCard (delta = 1) and goToPrevCard (delta = -1) up to setTimeout,
\* with fewer than cap callbacks pending.
goToCardWithin(delta, cap) ==
    /\ PanelNow = Flashcards
    /\ flashcards # <<>>
    /\ Len(timers) < cap
    /\ timers' = Append(timers, [delta |-> delta, length |-> Len(flashcards)])
    /\ IF fc.isFlipped
       THEN CardEffect([fc EXCEPT !.isFlipped = FALSE])
       ELSE UNCHANGED <<fc, speech, audioContext, currentSource, sources>>
    /\ UNCHANGED <<appVars, chatVars, codec, quiz, sum, ce, synthDone>>

goToCard(delta) == goToCardWithin(delta, MaxTimers)

goToNextCard == goToCard(1)
goToPrevCard == goToCard(-1)

\* The setTimeout callback of goToNextCard/goToPrevCard, 150 ms later:
\* prev => (prev + 1) % flashcards.length, or
\* prev => (prev - 1 + flashcards.length) % flashcards.length, with the
\* flashcards of the handler's render.  When the card view cannot be
\* rendered with the new index, the tree is removed.
CardTimer ==
    /\ timers # <<>>
    /\ LET t == Head(timers)
           next == IF t.delta = 1 THEN (fc.currentIndex + 1) % t.length
                   ELSE (fc.currentIndex - 1 + t.length) % t.length
       IN IF next = fc.currentIndex
          THEN /\ timers' = Tail(timers)
               /\ UNCHANGED <<fc, speech, audioContext, currentSource, sources>>
               /\ UNCHANGED <<appVars, chatVars, codec, quiz, sum, ce, synthDone>>
          ELSE IF FlashcardRenderThrows(flashcards, next)
          THEN /\ upload' = [upload EXCEPT !.root = "unmounted"]
               /\ generations' = NoGenerations
               /\ UNCHANGED <<studyContent, activeTool, isLoading, error, summary,
                              flashcards, quizQuestions>>
               /\ PanelEffects
          ELSE /\ timers' = Tail(timers)
               /\ CardEffect([fc EXCEPT !.currentIndex = next])
               /\ UNCHANGED <<appVars, chatVars, codec, quiz, sum, ce, synthDone>>

\* Mutant of AudioButtonEnabled: the buttons are never disabled.
AudioButtonAlways(text) == TRUE

\* renderAudioButton: disabled={isGeneratingSpeech && !isPlayingThis}.
AudioButtonEnabled(text) == ~(fc.isGeneratingSpeech /\ fc.currentlyPlaying # text)

\* `audioCache[text]` on the plain object that holds the cache; NoPayload
\* is undefined.
CacheGet(cache, text) ==
    IF text \in DOMAIN cache THEN cache[text]
    ELSE IF Inherited(text) THEN Member(text)
    ELSE NoPayload

\* handlePlayAudio(text) up to its first await (or to its return); both
\* faces of the current card carry a button.  `if (currentlyPlaying)` is a
\* test for a truthy value: neither null nor the empty string passes it.
handlePlayAudio(text) ==
    /\ PanelNow = Flashcards
    /\ flashcards # <<>>
    /\ text \in {currentCard.term, currentCard.definition}
    /\ AudioButtonEnabled(text)
    /\ LET wasPlaying == Truthy(fc.currentlyPlaying)
           wasPlayingThisText == fc.currentlyPlaying = text
           e1 == IF wasPlaying THEN stopAudio(Engine, Flashcards) ELSE Engine
           f1 == IF wasPlaying THEN [fc EXCEPT !.currentlyPlaying = Null] ELSE fc
       IN IF wasPlaying /\ wasPlayingThisText
          THEN /\ SetEngine(e1)
               /\ fc' = f1
               /\ UNCHANGED speech
          ELSE IF CacheGet(fc.audioCache, text) # NoPayload
          THEN /\ fc' = [f1 EXCEPT !.currentlyPlaying = text]
               /\ IF Decodes(CacheGet(fc.audioCache, text))
                  THEN HasRoom(sources) /\ SetEngine(playAudio(e1, Flashcards, "onEnd"))
                  ELSE SetEngine(playAudioRejects(e1, Flashcards))
               /\ UNCHANGED speech
          ELSE /\ SpeechRoom
               /\ fc' = [f1 EXCEPT !.isGeneratingSpeech = TRUE]
               /\ speech' = speech \cup {[id |-> FreeSpeechId, panel |-> Flashcards, text |-> text,
                                          live |-> TRUE, sup |-> FALSE]}
               /\ SetEngine(e1)
    /\ UNCHANGED <<appVars, chatVars, codec, quiz, sum, ce, timers, synthDone>>

\* --------------------------------------------- ConceptExplainer component
\* onChange of the input (disabled while isLoading): blank or non-blank.
setConcept(nonBlank) ==
    /\ PanelNow = ConceptExplainer
    /\ ~ce.isLoading
    /\ ce.concept # nonBlank
    /\ ce' = [ce EXCEPT !.concept = nonBlank]
    /\ UNCHANGED <<appVars, chatVars, codec, quiz, sum, fc, timers, speech, audioContext, currentSource, sources,
                   synthDone>>

\* handleExplain up to its await.
handleExplain ==
    /\ PanelNow = ConceptExplainer
    /\ ~ce.isLoading
    /\ ce.concept
    /\ ce' = [ce EXCEPT !.isLoading = TRUE, !.error = FALSE, !.explanation = NoText,
                        !.isPlaying = FALSE, !.audioDataRef = NoPayload]
    /\ SetEngine(stopAudio(Engine, ConceptExplainer))
    /\ speech' = Superseded(speech, ConceptExplainer)
    /\ synthDone' = {}
    /\ UNCHANGED <<appVars, chatVars, codec, quiz, sum, fc, timers>>

\* handleExplain from its await on: explainConcept returned text v.
ExplainReturns(v) ==
    /\ PanelNow = ConceptExplainer
    /\ ce.isLoading
    /\ ce' = [ce EXCEPT !.explanation = v, !.isLoading = FALSE]
    /\ UNCHANGED <<appVars, chatVars, codec, quiz, sum, fc, timers, speech, audioContext, currentSource, sources,
                   synthDone>>

\* handleExplain from its await on: explainConcept threw.
ExplainFails ==
    /\ PanelNow = ConceptExplainer
    /\ ce.isLoading
    /\ ce' = [ce EXCEPT !.error = TRUE, !.isLoading = FALSE]
    /\ UNCHANGED <<appVars, chatVars, codec, quiz, sum, fc, timers, speech, audioContext, currentSource, sources,
                   synthDone>>

\* ConceptExplainer.handlePlay up to its first await; the button is shown
\* when explanation && !isLoading and is disabled while isGeneratingSpeech.
ExplainerHandlePlay ==
    /\ PanelNow = ConceptExplainer
    /\ Truthy(ce.explanation)
    /\ ~ce.isLoading
    /\ ~ce.isGeneratingSpeech
    /\ IF ce.isPlaying
       THEN /\ SetEngine(stopAudio(Engine, ConceptExplainer))
            /\ ce' = [ce EXCEPT !.isPlaying = FALSE]
            /\ UNCHANGED speech
       ELSE IF ce.audioDataRef # NoPayload
       THEN /\ ce' = [ce EXCEPT !.isPlaying = TRUE]
            /\ IF Decodes(ce.audioDataRef)
               THEN HasRoom(sources) /\ SetEngine(playAudio(Engine, ConceptExplainer, "onEnd"))
               ELSE SetEngine(playAudioRejects(Engine, ConceptExplainer))
            /\ UNCHANGED speech
       ELSE /\ SpeechRoom
            /\ ce' = [ce EXCEPT !.isGeneratingSpeech = TRUE]
            /\ speech' = speech \cup {[id |-> FreeSpeechId, panel |-> ConceptExplainer,
                                       text |-> ce.explanation, live |-> TRUE, sup |-> FALSE]}
            /\ UNCHANGED <<audioContext, currentSource, sources>>
    /\ UNCHANGED <<appVars, chatVars, codec, quiz, sum, fc, timers, synthDone>>

\* --------------------------------------------------------- Chat component
\* String.prototype.trim on the model's strings.
RECURSIVE trimStart(_)
trimStart(str) == IF str # <<>> /\ Head(str) = " " THEN trimStart(Tail(str)) ELSE str
RECURSIVE trimEnd(_)
trimEnd(str) ==
    IF str # <<>> /\ str[Len(str)] = " " THEN trimEnd(SubSeq(str, 1, Len(str) - 1)) ELSE str

\* Mutant of trim: the input is taken as typed.
trimNothing(str) == str

trim(str) == trimEnd(trimStart(str))

\* Suspended handleSendMessage calls: [id, pc, idx, frags].  pc is where the
\* handler waits ("sending": on sendMessageStream, "streaming": inside the
\* for-await loop); idx and frags are history: the index of the placeholder
\* the send appended and the chunks its loop has applied so far.
StreamIds == 1..MaxStreams
FreeStreamId == CHOOSE i \in StreamIds :
    i \notin {s.id : s \in streams} /\ \A j \in 1..(i - 1) : j \in {s.id : s \in streams}
StreamRoom == {s.id : s \in streams} # StreamIds

\* onChange of the input, which is disabled while isLoading.
setUserInput(v) ==
    /\ PanelNow = Chat
    /\ ~chat.isLoading
    /\ v # chat.userInput
    /\ chat' = [chat EXCEPT !.userInput = v]
    /\ UNCHANGED <<appVars, audioVars, codec, quiz, streams>>

\* Mutant of SetChat: a setter acts on whichever Chat instance is mounted.
SetChatOfMountedPanel(s, new) == IF s.live \/ chat.messages # <<>> THEN new ELSE chat

\* A state setter (setMessages, setIsLoading) called by the handler of
\* stream s: it sets the state of the instance that handler belongs to, and
\* does nothing once that instance is unmounted.
SetChat(s, new) == IF s.live THEN new ELSE chat

\* The guard of handleSendMessage.
CanSend == trim(chat.userInput) # <<>> /\ chat.session /\ ~chat.isLoading

\* Mutant of SendUpdater: the two new entries are put in front.
SendUpdaterInFront(prev, text) ==
    <<[role |-> "user", content |-> text], [role |-> "model", content |-> <<>>]>> \o prev

\* setMessages(prev => [...prev, userMessage, { role: 'model', content: '' }]).
SendUpdater(prev, text) ==
    prev \o <<[role |-> "user", content |-> text], [role |-> "model", content |-> <<>>]>>

\* Mutant of SendState: the send does not set isLoading.
SendStateNotLoading(c) ==
    [c EXCEPT !.messages = SendUpdater(@, trim(c.userInput)), !.userInput = <<>>]

\* Mutant of SendState: the send leaves the input as typed.
SendStateKeepsInput(c) ==
    [c EXCEPT !.messages = SendUpdater(@, trim(c.userInput)), !.isLoading = TRUE]

\* The state updates of an accepted send.
SendState(c) ==
    [c EXCEPT !.messages = SendUpdater(@, trim(c.userInput)), !.userInput = <<>>,
              !.isLoading = TRUE]

\* handleSendMessage (send button or Enter key) up to its await, or to its
\* early return.
handleSendMessage ==
    /\ PanelNow = Chat
    /\ IF ~CanSend
       THEN UNCHANGED vars
       ELSE /\ Len(chat.messages) + 3 <= MaxTranscript
            /\ StreamRoom
            /\ chat' = SendState(chat)
            /\ streams' = streams \cup {[id |-> FreeStreamId, pc |-> "sending",
                                         idx |-> Len(chat.messages) + 2, frags |-> <<>>,
                                         live |-> TRUE]}
            /\ UNCHANGED <<appVars, audioVars, codec, quiz>>

\* sendMessageStream resolved: the handler enters its for-await loop.
StreamOpens(s) ==
    /\ s \in streams
    /\ s.pc = "sending"
    /\ streams' = (streams \ {s}) \cup {[s EXCEPT !.pc = "streaming"]}
    /\ UNCHANGED <<appVars, audioVars, codec, quiz, chat>>

\* The updater of the loop body: the chunk is appended to the last message
\* if that is a model message.
ChunkUpdater(prev, chunkText) ==
    IF prev[Len(prev)].role = "model"
    THEN [prev EXCEPT ![Len(prev)].content = @ \o StringOf(chunkText)]
    ELSE prev

\* One iteration of the for-await loop: the stream delivered chunkText.
StreamChunk(s, chunkText) ==
    /\ s \in streams
    /\ s.pc = "streaming"
    /\ Len(s.frags) < MaxFragments
    /\ chat' = SetChat(s, [chat EXCEPT !.messages = ChunkUpdater(@, chunkText)])
    /\ streams' = (streams \ {s}) \cup {[s EXCEPT !.frags = Append(@, chunkText)]}
    /\ UNCHANGED <<appVars, audioVars, codec, quiz>>

\* Mutant of StreamEnds: the loop ends and the finally does not run.
StreamEndsNoFinally(s) ==
    /\ s \in streams
    /\ s.pc = "streaming"
    /\ streams' = streams \ {s}
    /\ UNCHANGED <<appVars, audioVars, codec, quiz, chat>>

\* The stream is exhausted: the loop ends, then the finally.
StreamEnds(s) ==
    /\ s \in streams
    /\ s.pc = "streaming"
    /\ chat' = SetChat(s, [chat EXCEPT !.isLoading = FALSE])
    /\ streams' = streams \ {s}
    /\ UNCHANGED <<appVars, audioVars, codec, quiz>>

\* The updater of the catch block.
CatchUpdater(prev) ==
    LET lastMessageIndex == Len(prev)
    IN IF lastMessageIndex >= 1 /\ prev[lastMessageIndex].role = "model"
          /\ prev[lastMessageIndex].content = <<>>
       THEN [prev EXCEPT ![lastMessageIndex] = errorMessage]
       ELSE Append(prev, errorMessage)

\* sendMessageStream rejected or the stream threw: catch, then finally.
StreamFails(s) ==
    /\ s \in streams
    /\ chat' = SetChat(s, [chat EXCEPT !.messages = CatchUpdater(@), !.isLoading = FALSE])
    /\ streams' = streams \ {s}
    /\ UNCHANGED <<appVars, audioVars, codec, quiz>>

\* ------------------------------------------------------------------- Quiz
\* The question view is shown: Quiz is mounted with questions and not on
\* its results view.
QuestionShown ==
    /\ PanelNow = Quiz /\ quizQuestions # <<>> /\ ~quiz.showResults

currentQuestion == [correctAnswer |-> quizQuestions[quiz.currentIndex + 1]]

\* Mutant of OptionDisabled: the option buttons stay enabled.
OptionNeverDisabled == FALSE

\* disabled={isAnswered} of the option buttons, and the first line of
\* handleAnswerSelect.
OptionDisabled == quiz.isAnswered

handleAnswerSelect(option) ==
    /\ QuestionShown
    /\ ~OptionDisabled
    /\ quiz' = [quiz EXCEPT !.selectedAnswer = option]
    /\ UNCHANGED <<appVars, audioVars, chatVars, codec>>

\* The Check Answer button is rendered while not answered and is disabled
\* without a selection.
handleCheckAnswer ==
    /\ QuestionShown
    /\ ~quiz.isAnswered
    /\ quiz.selectedAnswer # "null"
    /\ quiz' = [quiz EXCEPT !.isAnswered = TRUE,
                            !.score = IF quiz.selectedAnswer = currentQuestion.correctAnswer
                                      THEN @ + 1 ELSE @,
                            !.checked = @ + 1]
    /\ UNCHANGED <<appVars, audioVars, chatVars, codec>>

\* The Next Question / View Results button is rendered once answered.
handleNextQuestion ==
    /\ QuestionShown
    /\ quiz.isAnswered
    /\ quiz' = IF quiz.currentIndex < Len(quizQuestions) - 1
               THEN [quiz EXCEPT !.isAnswered = FALSE, !.selectedAnswer = "null",
                                 !.currentIndex = @ + 1]
               ELSE [quiz EXCEPT !.isAnswered = FALSE, !.selectedAnswer = "null",
                                 !.showResults = TRUE]
    /\ UNCHANGED <<appVars, audioVars, chatVars, codec>>

\* The Try Again button of the results view.
restartQuiz ==
    /\ PanelNow = Quiz /\ quizQuestions # <<>> /\ quiz.showResults
    /\ quiz' = quizInit
    /\ UNCHANGED <<appVars, audioVars, chatVars, codec>>

\* ------------------------------------------------------------ LandingPage
\* event.target.files?.[0]: no file, a PDF, a file of another type.
Files == {"none", "pdf", "other"}

\* What the upload handler leaves alone.
studyVars == <<studyContent, activeTool, isLoading, error, summary, flashcards,
               quizQuestions, generations, audioVars, chatVars, codec, quiz>>

\* Mutant of HasText: any non-empty text counts.
HasTextNoTrim(fullText) == fullText # <<>>

\* The test `fullText.trim()` of handleFileChange.
HasText(fullText) == trim(fullText) # <<>>

\* The catch and the finally of reader.onload.
UploadThrows(u) == [u EXCEPT !.appError = TRUE, !.isProcessing = FALSE, !.pc = "idle"]

\* handleFileChange up to reader.readAsArrayBuffer; the input and the
\* button are disabled while isProcessing.
handleFileChange(file) ==
    /\ ~studyContent
    /\ ~upload.isProcessing
    /\ IF file = "none"
       THEN UNCHANGED vars
       ELSE /\ upload' = IF file # "pdf"
                         THEN [upload EXCEPT !.appError = TRUE, !.file = file]
                         ELSE [upload EXCEPT !.appError = FALSE, !.isProcessing = TRUE,
                                             !.pc = "reading", !.file = file,
                                             !.fullText = <<>>, !.ocr = FALSE]
            /\ UNCHANGED studyVars

\* reader.onerror.
readerOnerror ==
    /\ upload.pc = "reading"
    /\ upload' = UploadThrows(upload)
    /\ UNCHANGED studyVars

\* reader.onload up to `await pdfjsLib.getDocument`; it throws when pdf.js is
\* not loaded.
readerOnload(loaded) ==
    /\ upload.pc = "reading"
    /\ upload' = IF loaded THEN [upload EXCEPT !.pc = "parsing"] ELSE UploadThrows(upload)
    /\ UNCHANGED studyVars

\* getDocument resolved: the page promises are created and awaited.
DocumentOpens ==
    /\ upload.pc = "parsing"
    /\ upload' = [upload EXCEPT !.pc = "extracting"]
    /\ UNCHANGED studyVars

\* A promise the handler awaits (getDocument, a page's text, a page's
\* rendering, performOcrOnImage) rejected.
ExtractionFails ==
    /\ upload.pc \in {"parsing", "extracting", "ocr"}
    /\ upload' = UploadThrows(upload)
    /\ UNCHANGED studyVars

\* The end of reader.onload with text in fullText: onFileSelect, then the
\* finally, whose setters reach a LandingPage that is being unmounted.
UploadSucceeds(text) ==
    /\ upload' = [upload EXCEPT !.fullText = text, !.pc = "idle", !.isProcessing = FALSE,
                                !.appError = FALSE]
    /\ onFileSelect

\* The direct extraction returned the pages' text, joined to text.  With
\* text in it the handler goes to its end; without, it enters the OCR
\* fallback, which throws when the canvas has no 2d context, and otherwise
\* waits for the pages to be rendered and recognised.
ExtractionReturns(text, context) ==
    /\ upload.pc = "extracting"
    /\ IF HasText(text)
       THEN UploadSucceeds(text)
       ELSE /\ upload' = IF context
                         THEN [upload EXCEPT !.fullText = text, !.pc = "ocr", !.ocr = TRUE]
                         ELSE UploadThrows([upload EXCEPT !.fullText = text, !.ocr = TRUE])
            /\ UNCHANGED studyVars

\* The OCR calls returned the pages' text, joined to text.
OcrReturns(text) ==
    /\ upload.pc = "ocr"
    /\ IF HasText(text)
       THEN UploadSucceeds(text)
       ELSE /\ upload' = UploadThrows([upload EXCEPT !.fullText = text])
            /\ UNCHANGED studyVars

\* App.clearError: the close button of the error banner.
clearError ==
    /\ PanelNow # "Unmounted"
    /\ upload.appError
    /\ upload' = [upload EXCEPT !.appError = FALSE]
    /\ UNCHANGED studyVars

\* ------------------------------------------ read-aloud handlers, resumed
\* Mutant of CachePut: the synthesized payload is not stored.
CachePutNothing(cache, text, payload) == cache

\* Mutant of CachePut: the new cache holds the new entry only.
CachePutOnly(cache, text, payload) == [t \in {text} |-> payload]

\* setAudioCache(prev => ({ ...prev, [text]: audioData })).
CachePut(cache, text, payload) ==
    [t \in DOMAIN cache \cup {text} |-> IF t = text THEN payload ELSE cache[t]]

\* The cache-miss branch from `await generateSpeech`, which returned
\* payload, up to `await playAudio`: store the payload, mark playing, start
\* playback.  When the payload does not decode, playAudio rejects and the
\* catch and the finally run in the same segment.  The state setters act
\* only while the handler's component is mounted (r.live); playAudio is a
\* module-level function and runs either way.
SpeechReturnsWith(r, payload) ==
    /\ r \in speech
    /\ Decodes(payload) => HasRoom(sources)
    /\ speech' = speech \ {r}
    /\ sum' = IF r.live /\ r.panel = Summary
              THEN [sum EXCEPT !.audioDataRef = payload, !.isPlaying = Decodes(payload),
                               !.isGeneratingSpeech = IF Decodes(payload) THEN @ ELSE FALSE]
              ELSE sum
    /\ ce' = IF r.live /\ r.panel = ConceptExplainer
             THEN [ce EXCEPT !.audioDataRef = payload, !.isPlaying = Decodes(payload),
                             !.isGeneratingSpeech = IF Decodes(payload) THEN @ ELSE FALSE]
             ELSE ce
    /\ fc' = IF r.live /\ r.panel = Flashcards
             THEN [fc EXCEPT !.audioCache = CachePut(@, r.text, payload),
                             !.currentlyPlaying = IF Decodes(payload) THEN r.text ELSE Null,
                             !.isGeneratingSpeech = IF Decodes(payload) THEN @ ELSE FALSE]
             ELSE fc
    /\ synthDone' = IF r.live THEN synthDone \cup {r.text} ELSE synthDone
    /\ IF Decodes(payload)
       THEN SetEngine(playAudio(Engine, r.panel, IF r.live THEN "finally" ELSE "none"))
       ELSE SetEngine(playAudioRejects(Engine, r.panel))
    /\ UNCHANGED <<appVars, chatVars, codec, quiz, timers>>

\* generateSpeech returned audio of the requested text.
SpeechReturns(r) == SpeechReturnsWith(r, SpeechOf(r.text))

\* Mutant of SpeechFails: the failed request is dropped and nothing else runs.
SpeechFailsSilently(r) ==
    /\ r \in speech
    /\ speech' = speech \ {r}
    /\ UNCHANGED <<appVars, chatVars, codec, quiz, sum, fc, ce, timers, audioContext, currentSource, sources,
                   synthDone>>

\* The cache-miss branch when generateSpeech throws: catch, then finally.
SpeechFails(r) ==
    /\ r \in speech
    /\ speech' = speech \ {r}
    /\ sum' = IF r.live /\ r.panel = Summary
              THEN [sum EXCEPT !.isPlaying = FALSE, !.isGeneratingSpeech = FALSE]
              ELSE sum
    /\ ce' = IF r.live /\ r.panel = ConceptExplainer
             THEN [ce EXCEPT !.isPlaying = FALSE, !.isGeneratingSpeech = FALSE]
             ELSE ce
    /\ fc' = IF r.live /\ r.panel = Flashcards
             THEN [fc EXCEPT !.currentlyPlaying = Null, !.isGeneratingSpeech = FALSE]
             ELSE fc
    /\ UNCHANGED <<appVars, chatVars, codec, quiz, timers, audioContext, currentSource, sources, synthDone>>

\* The ended event of a source (it played to its end, or stop() was called
\* on it): source.onended runs, the promise of playAudio resolves, and the
\* handler that awaited it runs to its end (the finally of the cache-miss
\* branch clears isGeneratingSpeech).
SourceEnded(s) ==
    /\ s \in sources
    /\ SetEngine(onendedEngine(Engine, s))
    /\ sum' = IF s.cb # "none" /\ s.mod = Summary
              THEN [sum EXCEPT !.isPlaying = FALSE,
                               !.isGeneratingSpeech = IF s.cb = "finally" THEN FALSE ELSE @]
              ELSE sum
    /\ ce' = IF s.cb # "none" /\ s.mod = ConceptExplainer
             THEN [ce EXCEPT !.isPlaying = FALSE,
                             !.isGeneratingSpeech = IF s.cb = "finally" THEN FALSE ELSE @]
             ELSE ce
    /\ fc' = IF s.cb # "none" /\ s.mod = Flashcards
             THEN [fc EXCEPT !.currentlyPlaying = Null,
                             !.isGeneratingSpeech = IF s.cb = "finally" THEN FALSE ELSE @]
             ELSE fc
    /\ UNCHANGED <<appVars, chatVars, codec, quiz, timers, speech, synthDone>>

\* ---------------------------------------------------------- specification
\* The read-aloud specification: the user moves between the three panels
\* that play audio (leaving a panel for Quiz, Chat, the loader or the error
\* box unmounts it exactly as leaving it for ConceptExplainer does).  The
\* decks are plain; FlashSpec has the others.
AudioTools == {Summary, Flashcards, ConceptExplainer}

Next ==
    \/ handleFileSelect
    \/ handleReset
    \/ \E tool \in AudioTools : handleToolSelect(tool)
    \/ \E tool \in {Summary, Flashcards} :
          \E v \in StudyResults(tool) : GenerationReturns(tool, v)
    \/ SummaryHandlePlay
    \/ flipCard
    \/ goToNextCard
    \/ goToPrevCard
    \/ CardTimer
    \/ \E text \in CardTexts : handlePlayAudio(text)
    \/ \E nonBlank \in BOOLEAN : setConcept(nonBlank)
    \/ handleExplain
    \/ \E v \in ExplanationTexts : ExplainReturns(v)
    \/ ExplainFails
    \/ ExplainerHandlePlay
    \/ \E r \in speech : SpeechReturns(r)
    \/ \E r \in speech : SpeechFails(r)
    \/ \E s \in sources : SourceEnded(s)

Spec == Init /\ [][Next]_vars

\* One panel session: the panel (any of the three) has just been mounted
\* and stays mounted.  For Summary a second generateSummary call may still
\* be outstanding (Summary selected, another tool selected, Summary selected
\* again before the first call returned).
\* The decks of a Flashcard session: every deck of one card, and the plain
\* deck of NCards cards.
SessionDecks == DecksOf(1) \cup {PlainDeck(NCards)}

SessionInit ==
    /\ studyContent = TRUE
    /\ activeTool \in AudioTools
    /\ isLoading = FALSE
    /\ error = FALSE
    /\ summary \in (IF activeTool = Summary THEN SummaryTexts ELSE {<<"summary", 1>>})
    /\ flashcards \in (IF activeTool = Flashcards THEN SessionDecks ELSE {<<>>})
    /\ quizQuestions = <<>>
    /\ \E n \in {0, 1} : /\ n = 1 => activeTool = Summary
                         /\ generations = [NoGenerations EXCEPT ![Summary] = n]
    /\ sum = sumInit
    /\ fc = fcInit
    /\ ce = ceInit
    /\ timers = <<>>
    /\ speech = {}
    /\ audioContext = [m \in Modules |-> "null"]
    /\ currentSource = [m \in Modules |-> 0]
    /\ sources = {}
    /\ synthDone = {}
    /\ chat = chatInit
    /\ streams = {}
    /\ codec = NoCodec
    /\ upload = NoUpload
    /\ quiz = quizInit

SessionNext ==
    \/ \E v \in SummaryTexts : GenerationReturns(Summary, v)
    \/ SummaryHandlePlay
    \/ flipCard
    \/ goToNextCard
    \/ goToPrevCard
    \/ CardTimer
    \/ \E text \in CardTexts : handlePlayAudio(text)
    \/ \E nonBlank \in BOOLEAN : setConcept(nonBlank)
    \/ handleExplain
    \/ \E v \in ExplanationTexts : ExplainReturns(v)
    \/ ExplainFails
    \/ ExplainerHandlePlay
    \/ \E r \in speech : SpeechReturns(r)
    \/ \E r \in speech : SpeechFails(r)
    \/ \E s \in sources : SourceEnded(s)

SessionSpec == SessionInit /\ [][SessionNext]_vars

\* The browser delivers the ended event of every source that was started,
\* and every generateSpeech promise settles.
Fairness ==
    /\ \A i \in SourceIds : WF_vars(\E s \in sources : s.id = i /\ SourceEnded(s))
    /\ \A i \in SpeechIds : WF_vars(\E r \in speech : r.id = i /\ (SpeechReturns(r) \/ SpeechFails(r)))

FairSessionSpec == SessionSpec /\ Fairness

\* Tool selection: the user moves between all five tools and every
\* generation call may succeed or fail; nothing is done inside the panels.
GeneratedTools == {Summary, Flashcards, Quiz}

ToolNext ==
    \/ handleFileSelect
    \/ handleReset
    \/ \E tool \in StudyTool : handleToolSelect(tool)
    \/ \E tool \in GeneratedTools :
          \E v \in Results(tool) : GenerationReturns(tool, v)
    \/ \E tool \in GeneratedTools : GenerationFails(tool)

ToolSpec == Init /\ [][ToolNext]_vars

\* One panel session in which the speech service may also return payloads
\* that do not decode.
DecodeNext ==
    \/ SessionNext
    \/ \E r \in speech : \E payload \in Undecodable(r.text) : SpeechReturnsWith(r, payload)

DecodeSpec == SessionInit /\ [][DecodeNext]_vars

\* Decoding: a payload made from a sequence of samples, the empty sequence
\* included, is decoded.
CodecInit ==
    /\ studyContent = FALSE
    /\ activeTool = NoTool
    /\ isLoading = FALSE
    /\ error = FALSE
    /\ summary = NoText
    /\ flashcards = <<>>
    /\ quizQuestions = <<>>
    /\ generations = NoGenerations
    /\ sum = sumInit
    /\ fc = fcInit
    /\ ce = ceInit
    /\ timers = <<>>
    /\ speech = {}
    /\ audioContext = [m \in Modules |-> "null"]
    /\ currentSource = [m \in Modules |-> 0]
    /\ sources = {}
    /\ synthDone = {}
    /\ chat = chatInit
    /\ streams = {}
    /\ upload = NoUpload
    /\ quiz = quizInit
    /\ \E samples \in SampleSeqs(MaxSamples) :
          codec = [stage |-> "payload", samples |-> samples,
                   base64 |-> btoa(LittleEndian(samples)), buffer |-> NoBuffer,
                   thrown |-> "none"]

CodecNext == DecodePayload

CodecSpec == CodecInit /\ [][CodecNext]_vars

\* One Chat session: the Chat panel has just been mounted (its effect has
\* created the session and the greeting) and stays mounted.
ChatInit ==
    /\ studyContent = TRUE
    /\ activeTool = Chat
    /\ isLoading = FALSE
    /\ error = FALSE
    /\ summary = <<"summary", 1>>
    /\ flashcards = <<>>
    /\ quizQuestions = <<>>
    /\ generations = NoGenerations
    /\ sum = sumInit
    /\ fc = fcInit
    /\ ce = ceInit
    /\ timers = <<>>
    /\ speech = {}
    /\ audioContext = [m \in Modules |-> "null"]
    /\ currentSource = [m \in Modules |-> 0]
    /\ sources = {}
    /\ synthDone = {}
    /\ chat = chatMounted
    /\ streams = {}
    /\ codec = NoCodec
    /\ upload = NoUpload
    /\ quiz = quizInit

ChatNext ==
    \/ \E v \in InputTexts : setUserInput(v)
    \/ handleSendMessage
    \/ \E s \in streams : StreamOpens(s)
    \/ \E s \in streams : \E chunkText \in FragmentTexts : StreamChunk(s, chunkText)
    \/ \E s \in streams : StreamEnds(s)
    \/ \E s \in streams : StreamFails(s)

ChatSpec == ChatInit /\ [][ChatNext]_vars

\* One Flashcard session: the panel has just been mounted with a deck of
\* 1..MaxDeck cards; up to MaxClicks clicks on next and previous fall within
\* the 150 ms delay, and the term of the card on display is read aloud.
DeckInit ==
    /\ studyContent = TRUE
    /\ activeTool = Flashcards
    /\ isLoading = FALSE
    /\ error = FALSE
    /\ summary = <<"summary", 1>>
    /\ flashcards \in {PlainDeck(n) : n \in 1..MaxDeck}
    /\ quizQuestions = <<>>
    /\ generations = NoGenerations
    /\ sum = sumInit
    /\ fc = fcInit
    /\ ce = ceInit
    /\ timers = <<>>
    /\ speech = {}
    /\ audioContext = [m \in Modules |-> "null"]
    /\ currentSource = [m \in Modules |-> 0]
    /\ sources = {}
    /\ synthDone = {}
    /\ chat = chatInit
    /\ streams = {}
    /\ codec = NoCodec
    /\ upload = NoUpload
    /\ quiz = quizInit

DeckNext ==
    \/ flipCard
    \/ goToCardWithin(1, MaxClicks)
    \/ goToCardWithin(-1, MaxClicks)
    \/ CardTimer
    \/ handlePlayAudio(currentCard.term)
    \/ \E r \in speech : SpeechReturns(r)
    \/ \E r \in speech : SpeechFails(r)
    \/ \E s \in sources : SourceEnded(s)

DeckSpec == DeckInit /\ [][DeckNext]_vars

\* The Flashcards tool within a study session whose summary was generated:
\* the user moves between Flashcards and Chat, generateFlashcards calls
\* return any deck, and the cards are turned, changed and read aloud.
FlashNext ==
    \/ \E tool \in {Flashcards, Chat} : handleToolSelect(tool)
    \/ \E v \in Decks : GenerationReturns(Flashcards, v)
    \/ flipCard
    \/ goToNextCard
    \/ goToPrevCard
    \/ CardTimer
    \/ \E text \in CardTexts : handlePlayAudio(text)
    \/ \E r \in speech : SpeechReturns(r)
    \/ \E r \in speech : SpeechFails(r)
    \/ \E s \in sources : SourceEnded(s)

FlashSpec == ChatInit /\ [][FlashNext]_vars

\* One Quiz session: the panel has just been mounted with a generated quiz,
\* which stays as it is.
QuizSessionInit ==
    /\ studyContent = TRUE
    /\ activeTool = Quiz
    /\ isLoading = FALSE
    /\ error = FALSE
    /\ summary = <<"summary", 1>>
    /\ flashcards = <<>>
    /\ quizQuestions \in QuizSets
    /\ generations = NoGenerations
    /\ sum = sumInit
    /\ fc = fcInit
    /\ ce = ceInit
    /\ timers = <<>>
    /\ speech = {}
    /\ audioContext = [m \in Modules |-> "null"]
    /\ currentSource = [m \in Modules |-> 0]
    /\ sources = {}
    /\ synthDone = {}
    /\ chat = chatInit
    /\ streams = {}
    /\ codec = NoCodec
    /\ upload = NoUpload
    /\ quiz = quizInit

QuizSessionNext ==
    \/ \E option \in Options : handleAnswerSelect(option)
    \/ handleCheckAnswer
    \/ handleNextQuestion
    \/ restartQuiz

QuizSessionSpec == QuizSessionInit /\ [][QuizSessionNext]_vars

\* The Quiz panel within a study session: the Quiz and Chat tools are
\* selected, generateQuiz calls return, and the quiz is taken.
QuizNext ==
    \/ QuizSessionNext
    \/ handleFileSelect
    \/ handleReset
    \/ \E tool \in {Quiz, Chat} : handleToolSelect(tool)
    \/ \E tool \in {Summary, Quiz} : \E v \in Results(tool) : GenerationReturns(tool, v)

QuizSpec == Init /\ [][QuizNext]_vars

\* Uploads: from the landing page to a study session, whose tools are
\* selected and generated, and back.
UploadNext ==
    \/ \E file \in Files : handleFileChange(file)
    \/ readerOnerror
    \/ \E loaded \in BOOLEAN : readerOnload(loaded)
    \/ DocumentOpens
    \/ ExtractionFails
    \/ \E text \in InputTexts : \E context \in BOOLEAN : ExtractionReturns(text, context)
    \/ \E text \in InputTexts : OcrReturns(text)
    \/ clearError
    \/ handleReset
    \/ \E tool \in StudyTool : handleToolSelect(tool)
    \/ \E tool \in {Summary, Flashcards} :
          \E v \in Results(tool) : GenerationReturns(tool, v)
    \/ \E tool \in GeneratedTools : GenerationFails(tool)

UploadSpec == Init /\ [][UploadNext]_vars

\* The chunks of a stream of RemountSpec: the first carries the text "a",
\* the later ones carry no text part.
RemountChunks(s) == IF s.frags = <<>> THEN {<<"a">>} ELSE {NoChunkText}

\* A Chat panel that is left and entered again, and whose study content is
\* replaced (reset, then a new file), while its streams are still running.
RemountNext ==
    \/ setUserInput(<<"q">>)
    \/ handleSendMessage
    \/ \E s \in streams : StreamOpens(s)
    \/ \E s \in streams : \E chunkText \in RemountChunks(s) : StreamChunk(s, chunkText)
    \/ \E s \in streams : StreamEnds(s)
    \/ \E s \in streams : StreamFails(s)
    \/ \E tool \in {Chat, ConceptExplainer} : handleToolSelect(tool)
    \/ handleReset
    \/ handleFileSelect
    \/ GenerationReturns(Summary, <<"summary", 1>>)

RemountSpec == ChatInit /\ [][RemountNext]_vars

\* Every stream terminates: sendMessageStream settles, and the stream it
\* returned ends or throws.
StreamTerminates ==
    \A i \in StreamIds :
        WF_vars(\E s \in streams : s.id = i /\ (StreamOpens(s) \/ StreamEnds(s) \/ StreamFails(s)))

FairChatSpec == ChatSpec /\ StreamTerminates

\* ================================================================ claims
PlayingSources(m) == {s \in sources : s.mod = m /\ s.st = "playing"}
AllPlaying == {s \in sources : s.st = "playing"}

\* The read-aloud controller of panel m: its generating flag and its
\* playing state, which are the hook states isGeneratingSpeech and
\* isPlaying (for Flashcard: currentlyPlaying is not null).  A button shows
\* the state only while it is rendered, and in Flashcard only the button of
\* the text that is marked.
Generating(m) ==
    IF m = Summary THEN sum.isGeneratingSpeech
    ELSE IF m = Flashcards THEN fc.isGeneratingSpeech
    ELSE ce.isGeneratingSpeech
isPlaying(m) ==
    IF m = Summary THEN sum.isPlaying
    ELSE IF m = Flashcards THEN fc.currentlyPlaying # Null
    ELSE ce.isPlaying
Idle(m) == ~Generating(m) /\ ~isPlaying(m)

\* C1 (at-most-one-playback): at no instant are two audio sources playing
\* at the same time, whatever sequence of read-aloud, stop, flip and
\* tool-switch actions the user performs across the three panels.
C1_AtMostOnePlayback == Cardinality(AllPlaying) <= 1

\* C2 (stale-completion ignore): when the ended event of a stopped source A
\* fires while a later source B is the module's current source, neither the
\* engine's current-source handle nor the mounted panel's playing indicator
\* changes.
C2_StaleCompletionIgnored ==
    [][\A a \in sources :
          (/\ a.st = "stopping"
           /\ a.cb # "none"
           /\ a.id \notin UsedIds(sources')
           /\ currentSource[a.mod] \notin {0, a.id}
           /\ isPlaying(a.mod))
          => /\ currentSource' = currentSource
             /\ isPlaying(a.mod)'
             /\ fc'.currentlyPlaying = fc.currentlyPlaying]_vars

\* What a toggle-stop of panel m must leave behind: the controller Idle, no
\* source of the panel's engine playing, no synthesis request issued and no
\* source created.
ToggleStopped(m) ==
    /\ Idle(m)'
    /\ PlayingSources(m)' = {}
    /\ speech' = speech
    /\ UsedIds(sources') = UsedIds(sources)

\* C3 (toggle-stop): invoking read-aloud for the text that is currently
\* playing stops playback, returns the controller to Idle and issues no new
\* synthesis request and no new decode/play call.
C3_ToggleStop ==
    [][/\ \A t \in CardTexts :
             (fc.currentlyPlaying = t /\ handlePlayAudio(t)) => ToggleStopped(Flashcards)
       /\ (sum.isPlaying /\ SummaryHandlePlay) => ToggleStopped(Summary)
       /\ (ce.isPlaying /\ ExplainerHandlePlay) => ToggleStopped(ConceptExplainer)]_vars

\* C4 (cache idempotence): within one panel session and with unchanged
\* subject text, once a synthesis request for text T has succeeded no further
\* synthesis request for T is issued: later reads of T are served from the
\* cache.
C4_CacheIdempotence ==
    [][\A r \in speech' : r.id \notin {q.id : q \in speech} => r.text \notin synthDone]_vars

\* C4 witness: a text whose synthesis succeeded in this session is being
\* played again from the cache (the handler awaits on the cache-hit branch).
C4_Witness ==
    \E s \in sources :
        /\ s.mod = Flashcards /\ s.st = "playing" /\ s.cb = "onEnd"
        /\ fc.currentlyPlaying \in synthDone

\* C5 (superseded synthesis is discarded): when the synthesis result of a
\* request arrives that the user superseded while it was in flight, no
\* source is started and no playing indicator is set.
C5_SupersededDiscarded ==
    [][\A r \in speech :
          (r.sup /\ r.id \notin {q.id : q \in speech'})
          => /\ UsedIds(sources') \subseteq UsedIds(sources)
             /\ \A m \in Modules : isPlaying(m)' => isPlaying(m)]_vars

\* C6 (no orphaned audio on navigation): at the moment a panel that can
\* play audio is unmounted, no source of its engine is left playing.
C6_NoOrphanedAudio ==
    [][\A m \in Modules : (PanelNow = m /\ PanelNow' # m) => PlayingSources(m)' = {}]_vars

\* C7 (speech controller state machine): the generating flag and the playing
\* indicator of a controller are never set at the same time.
C7_OneOfIdleGeneratingPlaying == \A m \in Modules : ~(Generating(m) /\ isPlaying(m))

\* C8 (completion notification): every source that was started has its
\* ended event delivered (after a natural end, an explicit stop or the
\* implicit stop of a newer play); the completion resets the playing
\* indicator of its mounted panel and lets the awaiting handler finish (the
\* cache-miss branch clears isGeneratingSpeech).  A source leaves `sources`
\* only by that delivery, so it is delivered once.
C8_CompletionNotification ==
    /\ \A i \in SourceIds : (i \in UsedIds(sources)) ~> (i \notin UsedIds(sources))
    /\ [][\A s \in sources :
             (s.id \notin UsedIds(sources') /\ s.cb # "none")
             => /\ ~isPlaying(s.mod)'
                /\ s.cb = "finally" => ~Generating(s.mod)']_vars

\* C8 witness: a playback was stopped, its completion is still to come and
\* its handler is still awaiting it inside the cache-miss branch.
C8_Witness ==
    \E s \in sources :
        s.st = "stopping" /\ s.cb = "finally" /\ Generating(s.mod) /\ ~isPlaying(s.mod)

\* C9 (switching text): read-aloud for text B while a different text A is
\* playing first stops A (no source that was playing is still playing), then
\* proceeds as a fresh request for B: from the cache B starts playing, else a
\* synthesis request for B is issued and nothing plays meanwhile.  Within one
\* engine a source never starts while another one is still playing.
\* Violated: while the empty string is the text playing, `if
\* (currentlyPlaying)` fails and A is not stopped; and for a term that names
\* a member of Object.prototype the cache lookup finds that member, so B is
\* neither synthesized nor played.
C9_SwitchingText ==
    /\ [](\A m \in Modules : Cardinality(PlayingSources(m)) <= 1)
    /\ [][\A b \in CardTexts :
             (fc.currentlyPlaying \notin {Null, b} /\ handlePlayAudio(b))
             => /\ \A s \in PlayingSources(Flashcards)' :
                      s.id \notin {q.id : q \in PlayingSources(Flashcards)}
                /\ IF b \in DOMAIN fc.audioCache
                   THEN /\ fc'.currentlyPlaying = b
                        /\ Cardinality(PlayingSources(Flashcards)') = 1
                        /\ speech' = speech
                   ELSE /\ PlayingSources(Flashcards)' = {}
                        /\ \E r \in speech' : r.text = b /\ r.live /\ r \notin speech]_vars

\* C10 (cache coherence): the payload a panel holds for read-aloud is the
\* one synthesized from the text it currently shows (Summary and
\* ConceptExplainer), and from its key (Flashcard).
C10_CacheCoherence ==
    /\ sum.audioDataRef # NoPayload => sum.audioDataRef[2] = summary
    /\ ce.audioDataRef # NoPayload => ce.audioDataRef[2] = ce.explanation
    /\ \A t \in DOMAIN fc.audioCache : fc.audioCache[t][2] = t

\* The outstanding synthesis requests of the mounted controller of panel m.
LiveRequests(m) == {r \in speech : r.panel = m /\ r.live}

\* C11 (one outstanding synthesis request): the mounted controller of a
\* panel never has two generateSpeech calls outstanding at the same time.
C11_OneOutstandingRequest == \A m \in Modules : Cardinality(LiveRequests(m)) <= 1

\* C11 witness: a Flashcard request is outstanding for a text that is not in
\* the non-empty cache, and both read-aloud buttons of the card are disabled.
C11_Witness ==
    /\ \E r \in LiveRequests(Flashcards) : r.text \notin DOMAIN fc.audioCache
    /\ DOMAIN fc.audioCache # {}
    /\ ~AudioButtonEnabled(currentCard.term)
    /\ ~AudioButtonEnabled(currentCard.definition)

\* The payload panel m holds for read-aloud.
CacheOf(m) ==
    IF m = Summary THEN sum.audioDataRef
    ELSE IF m = Flashcards THEN fc.audioCache
    ELSE ce.audioDataRef

\* C12 (synthesis failure returns to Idle): when the generateSpeech call of a
\* mounted controller fails, the controller is Idle afterwards, its cache is
\* unchanged, no source is created and no new request is issued.
C12_SynthesisFailureIdle ==
    [][\A r \in speech :
          (r.live /\ SpeechFails(r))
          => /\ Idle(r.panel)'
             /\ CacheOf(r.panel)' = CacheOf(r.panel)
             /\ sources' = sources
             /\ speech' = speech \ {r}]_vars

\* C12 witness: a request that is about to fail: the controller is
\* generating for a text it has not cached, after a switch away from a
\* cached text whose stopped source is still pending.
C12_Witness ==
    /\ \E r \in LiveRequests(Flashcards) : r.text \notin DOMAIN fc.audioCache
    /\ fc.isGeneratingSpeech
    /\ \E s \in sources : s.mod = Flashcards /\ s.st = "stopping"

\* The error state a panel can show: ConceptExplainer's own error, and for
\* Summary and Flashcard (which have none) the error box of StudyInterface.
PanelError(m) == IF m = ConceptExplainer THEN ce.error ELSE error

\* C13 (synthesis failure is surfaced): when the generateSpeech call of a
\* mounted controller fails, the panel's error state is set.
C13_SynthesisFailureSurfaced ==
    [][\A r \in speech : (r.live /\ SpeechFails(r)) => PanelError(r.panel)']_vars

\* A read-aloud step of panel m fell back to Idle: the controller is Idle
\* afterwards and the step created no source.
FellBackToIdle(m) == Idle(m)' /\ UsedIds(sources') \subseteq UsedIds(sources)

\* C14 (decode failure falls back to Idle): when the payload does not
\* decode, no playback is started and the controller ends Idle, both when
\* the payload has just been synthesized (cache miss) and when it is read
\* from the cache again (cache hit).
C14_DecodeFailureIdle ==
    [][/\ \A r \in speech : \A payload \in Undecodable(r.text) :
             (r.live /\ SpeechReturnsWith(r, payload)) => FellBackToIdle(r.panel)
       /\ (/\ ~sum.isPlaying /\ sum.audioDataRef # NoPayload /\ ~Decodes(sum.audioDataRef)
           /\ SummaryHandlePlay) => FellBackToIdle(Summary)
       /\ (/\ ~ce.isPlaying /\ ce.audioDataRef # NoPayload /\ ~Decodes(ce.audioDataRef)
           /\ ExplainerHandlePlay) => FellBackToIdle(ConceptExplainer)
       /\ \A t \in DOMAIN fc.audioCache :
             (/\ fc.currentlyPlaying # t /\ ~Decodes(fc.audioCache[t])
              /\ handlePlayAudio(t)) => FellBackToIdle(Flashcards)]_vars

\* C15 (recoverable generation failure): while the failed tool is the
\* active one and shows the error, selecting it again issues a new
\* generation request.
C15_RetrySameTool ==
    \A t \in GeneratedTools :
        (/\ studyContent /\ activeTool = t /\ error /\ ~isLoading
         /\ ~Generated(t) /\ generations[t] = 0 /\ Outstanding < MaxGen)
        => ENABLED (handleToolSelect(t) /\ generations'[t] = generations[t] + 1)

\* The text a chunk carries: none for a chunk without a text part.
TextOf(chunkText) == IF chunkText = NoChunkText THEN <<>> ELSE chunkText

\* The concatenation f1 \o ... \o fn of the texts of a sequence of fragments.
RECURSIVE Concatenation(_)
Concatenation(frags) ==
    IF frags = <<>> THEN <<>> ELSE TextOf(Head(frags)) \o Concatenation(Tail(frags))

\* C16 (stream ordering): while a send is in progress the content of its
\* assistant entry is the concatenation, in arrival order, of the fragments
\* delivered so far (each applied once), and when the stream ends the final
\* content is the concatenation of all its fragments.
\* Violated: for a chunk without a text part the loop appends the string
\* "undefined", which is part of no fragment.
C16_StreamOrdering ==
    /\ [](\A s \in streams : chat.messages[s.idx].content = Concatenation(s.frags))
    /\ [][\A s \in streams :
             StreamEnds(s) => chat'.messages[s.idx].content = Concatenation(s.frags)]_vars

\* C17 (transcript invariant): a step never removes or reorders entries; the
\* only entry it may change is the last one, only in its content, and only
\* while a send is in progress.
C17_TranscriptInvariant ==
    [][/\ Len(chat'.messages) >= Len(chat.messages)
       /\ \A i \in 1..Len(chat.messages) :
             chat'.messages[i] # chat.messages[i]
             => /\ i = Len(chat.messages)
                /\ chat'.messages[i].role = chat.messages[i].role
                /\ chat.isLoading
                /\ streams # {}]_vars

\* C17 witness: a second send is streaming into its placeholder behind the
\* finished entries of the first.
C17_Witness ==
    /\ Len(chat.messages) >= 5
    /\ chat.isLoading
    /\ chat.messages[Len(chat.messages)].content # <<>>
    /\ chat.messages[3].content # <<>>

\* A string that is empty after trimming.
Blank(str) == \A i \in 1..Len(str) : str[i] = " "

\* C18 (empty chat input is rejected): a send with blank input changes
\* neither the transcript, the input field nor the loading flag, and opens
\* no stream.
C18_EmptyInputRejected ==
    [][(Blank(chat.userInput) /\ handleSendMessage) => UNCHANGED <<chat, streams>>]_vars

\* C18 witness: the input holds only spaces while the panel is ready to send.
C18_Witness ==
    /\ PanelNow = Chat
    /\ chat.userInput # <<>>
    /\ Blank(chat.userInput)
    /\ ~chat.isLoading
    /\ Len(chat.messages) >= 3

\* C19 (send while busy is a no-op): at most one chat stream is in flight; a
\* send attempted while one is in flight changes nothing; a user entry is
\* appended only when no stream is in flight.
C19_SendWhileBusy ==
    /\ [](Cardinality(streams) <= 1)
    /\ [][(streams # {} /\ handleSendMessage) => UNCHANGED <<chat, streams>>]_vars
    /\ [][\A i \in (Len(chat.messages) + 1)..Len(chat'.messages) :
             chat'.messages[i].role = "user" => streams = {}]_vars

\* C19 witness: a stream is in flight with partial content; the controller is
\* busy and the input has been cleared.
C19_Witness ==
    /\ chat.isLoading
    /\ chat.userInput = <<>>
    /\ \E s \in streams : s.pc = "streaming" /\ Concatenation(s.frags) # <<>>

\* C20 (chat failure with an empty placeholder): when the send fails before
\* any non-empty fragment arrived, the placeholder is replaced by the apology
\* and no entry is added or removed.
\* Violated: after a chunk without a text part the placeholder holds
\* "undefined" (see C16), and the catch block appends the apology.
C20_FailureEmptyPlaceholder ==
    [][\A s \in streams :
          (StreamFails(s) /\ Concatenation(s.frags) = <<>>)
          => chat'.messages = [chat.messages EXCEPT ![s.idx] = errorMessage]]_vars

\* C21 (chat failure with partial content): when the stream fails after
\* non-empty content has arrived, the transcript is left exactly as it was.
C21_FailurePartialContent ==
    [][\A s \in streams :
          (StreamFails(s) /\ Concatenation(s.frags) # <<>>)
          => chat'.messages = chat.messages]_vars

\* C22 (chat always returns to Ready): a busy controller eventually is not
\* busy, so that the input accepts text again.
C22_ReturnsToReady == chat.isLoading ~> (~chat.isLoading /\ streams = {})

\* C22 witness: a send has been accepted and its sendMessageStream call has
\* not settled yet.
C22_Witness ==
    /\ chat.isLoading
    /\ \E s \in streams : s.pc = "sending"
    /\ Len(chat.messages) >= 5

\* content is str without its leading and trailing spaces.
IsTrimmed(content, str) ==
    /\ content # <<>>
    /\ content[1] # " " /\ content[Len(content)] # " "
    /\ \E i \in 0..Len(str) :
          /\ i + Len(content) <= Len(str)
          /\ SubSeq(str, i + 1, i + Len(content)) = content
          /\ Blank(SubSeq(str, 1, i))
          /\ Blank(SubSeq(str, i + Len(content) + 1, Len(str)))

\* C23 (effect of an accepted send): a send with non-blank input on a ready
\* controller appends, behind the existing entries, a user entry with the
\* trimmed input and then an empty assistant placeholder, clears the input
\* and makes the controller busy.
C23_AcceptedSend ==
    [][(~Blank(chat.userInput) /\ ~chat.isLoading /\ handleSendMessage)
       => LET n == Len(chat.messages)
          IN /\ Len(chat'.messages) = n + 2
             /\ SubSeq(chat'.messages, 1, n) = chat.messages
             /\ chat'.messages[n + 1].role = "user"
             /\ IsTrimmed(chat'.messages[n + 1].content, chat.userInput)
             /\ chat'.messages[n + 2] = [role |-> "model", content |-> <<>>]
             /\ chat'.userInput = <<>>
             /\ chat'.isLoading]_vars

\* C23 witness: input typed with a space around it was sent: the user entry
\* holds it trimmed, the placeholder is empty, the input is cleared.
C23_Witness ==
    /\ Len(chat.messages) = 3
    /\ chat.messages[2] = [role |-> "user", content |-> <<"q">>]
    /\ chat.messages[3] = [role |-> "model", content |-> <<>>]
    /\ chat.userInput = <<>>
    /\ chat.isLoading

\* The audio contexts that exist (none is ever closed by the program).
LiveContexts == {m \in Modules : audioContext[m] # "null"}

\* C24 (audio context singleton): across all panels at most one audio
\* context exists.
C24_ContextSingleton == Cardinality(LiveContexts) <= 1

\* C25 (stop is safe and synchronous): in every reachable engine state,
\* stopAudio with no current source returns the engine unchanged; with a
\* current source it returns an engine whose handle is cleared and in which
\* no source of the module is playing, every other source, handle and
\* context being as before.  A playing source is always the current one.
C25_StopSafe ==
    \A m \in Modules :
        LET e == stopAudio(Engine, m)
        IN /\ \A s \in PlayingSources(m) : s.id = currentSource[m]
           /\ currentSource[m] = 0 => e = Engine
           /\ currentSource[m] # 0
              => /\ e.cur = [currentSource EXCEPT ![m] = 0]
                 /\ {s \in e.src : s.mod = m /\ s.st = "playing"} = {}
                 /\ UsedIds(e.src) = UsedIds(sources)
                 /\ \A s \in sources : s.id # currentSource[m] => s \in e.src
                 /\ e.ctx = audioContext

\* C25 witness: the Summary's playback was stopped by the user: its source
\* is silent with its ended event pending, and the handle is cleared.
C25_Witness ==
    /\ \E s \in sources : s.mod = Summary /\ s.st = "stopping" /\ s.cb = "onEnd"
    /\ currentSource[Summary] = 0
    /\ ~sum.isPlaying
    /\ PlayingSources(Summary) = {}

\* The decoding has yielded a mono buffer at 24000 Hz of as many frames as
\* there were samples, whose k-th value is sample_k / 32768.
RoundTrip ==
    /\ codec.stage = "buffer"
    /\ codec.buffer.numberOfChannels = 1
    /\ codec.buffer.sampleRate = 24000
    /\ codec.buffer.length = Len(codec.samples)
    /\ \A k \in 1..Len(codec.samples) :
          codec.buffer.channelData[0][k] = <<codec.samples[k], 32768>>

\* C26 (decode round-trip), as stated: for every sequence of N samples,
\* decoding the payload made from it yields a mono buffer of exactly N
\* samples at 24000 Hz whose k-th value is sample_k / 32768.  Violated by
\* the empty sequence: its payload is the empty string, decode yields no
\* bytes and ctx.createBuffer(1, 0, 24000) throws, so no buffer is yielded.
C26_DecodeRoundTripEverySequence ==
    codec.stage \in {"buffer", "thrown"} => RoundTrip

\* C26 (decode round-trip), amended: for every sequence of N >= 1 samples,
\* decoding the payload made from it yields a mono buffer of exactly N
\* samples at 24000 Hz whose k-th value is sample_k / 32768, in the original
\* order; for N = 0 decoding throws a NotSupportedError and yields no buffer.
C26_DecodeRoundTrip ==
    codec.stage \in {"buffer", "thrown"}
    => IF Len(codec.samples) >= 1
       THEN RoundTrip
       ELSE /\ codec.stage = "thrown"
            /\ codec.thrown = "NotSupportedError"
            /\ codec.buffer = NoBuffer

\* C26 witness: two samples whose bytes differ in both positions have been
\* decoded.
C26_Witness ==
    /\ codec.stage = "buffer"
    /\ codec.samples = <<256, -1>>
    /\ codec.buffer.length = 2

\* C27 (Flashcard cache update): when generateSpeech returns a payload for
\* the text T of the mounted Flashcard panel, T was not in the cache and the
\* cache afterwards is the old cache plus T mapped to that payload; no step
\* of a flashcard session removes or changes an entry, and the cache changes
\* in no other way.
C27_CacheUpdate ==
    [][/\ \A t \in DOMAIN fc.audioCache :
             t \in DOMAIN fc'.audioCache /\ fc'.audioCache[t] = fc.audioCache[t]
       /\ \A r \in speech : \A payload \in {SpeechOf(r.text)} \cup Undecodable(r.text) :
             (r.live /\ r.panel = Flashcards /\ SpeechReturnsWith(r, payload))
             => /\ r.text \notin DOMAIN fc.audioCache
                /\ DOMAIN fc'.audioCache = DOMAIN fc.audioCache \cup {r.text}
                /\ fc'.audioCache[r.text] = payload
       /\ fc'.audioCache # fc.audioCache
          => \E r \in speech : \E payload \in {SpeechOf(r.text)} \cup Undecodable(r.text) :
                r.live /\ r.panel = Flashcards /\ SpeechReturnsWith(r, payload)]_vars

\* C27 witness: the term and then the definition of a card were read; the
\* cache holds both, each with the payload returned for it.
C27_Witness ==
    /\ activeTool = Flashcards
    /\ DOMAIN fc.audioCache = {Term(0), Definition(0)}
    /\ fc.audioCache[Term(0)] = SpeechOf(Term(0))
    /\ fc.audioCache[Definition(0)] \in Undecodable(Definition(0))

\* A tool whose content the interface holds: a non-empty summary, a
\* non-empty card set, a non-empty quiz.
HasContent(t) ==
    \/ t = Summary /\ Truthy(summary)
    \/ t = Flashcards /\ flashcards # <<>>
    \/ t = Quiz /\ quizQuestions # <<>>

\* C28 (no re-fetch of generated content): selecting a tool whose content was
\* generated, or Chat or Concept Explainer, makes it the active tool and
\* issues no generation request.
C28_NoRefetch ==
    [][\A t \in StudyTool :
          ((t \in {Chat, ConceptExplainer} \/ HasContent(t)) /\ handleToolSelect(t))
          => /\ generations' = generations
             /\ isLoading' = isLoading
             /\ activeTool' = t]_vars

\* C28 witness: all three contents were generated and Summary, generated
\* first, is the active tool again, with no request outstanding.
C28_Witness ==
    /\ studyContent /\ activeTool = Summary
    /\ Truthy(summary) /\ flashcards # <<>> /\ quizQuestions # <<>>
    /\ Outstanding = 0 /\ ~isLoading /\ ~error

\* C29 (loading flag matches outstanding work): the study interface shows
\* its loader exactly while a generation request for the active tool is
\* outstanding.
C29_LoaderMatchesWork ==
    studyContent
    => (isLoading <=> (activeTool \in GeneratedTools /\ generations[activeTool] >= 1))

\* C30 (errors stay with their tool): after a failed generation, selecting
\* another tool that needs no generation (Chat, Concept Explainer, or a tool
\* whose content is generated) while nothing is loading displays that tool.
C30_ErrorStaysWithTool ==
    [][\A t \in StudyTool :
          (/\ error /\ ~isLoading /\ t # activeTool
           /\ (t \in {Chat, ConceptExplainer} \/ HasContent(t))
           /\ handleToolSelect(t))
          => PanelNow' = t]_vars

\* C31 (stream fragments reach only their own placeholder): a fragment of a
\* stream whose Chat instance is mounted is appended to the placeholder that
\* the stream's send created and changes nothing else of the transcript; a
\* fragment, the end or the failure of a stream whose instance was unmounted
\* (tool switch, loader, reset and new study content) leaves the state of
\* the Chat panel, mounted anew or not, unchanged.
C31_OwnPlaceholder ==
    [][\A s \in streams :
          /\ \A c \in FragmentTexts :
                StreamChunk(s, c)
                => IF s.live
                   THEN chat'.messages =
                            [chat.messages EXCEPT ![s.idx].content = @ \o StringOf(c)]
                   ELSE chat' = chat
          /\ (~s.live /\ (StreamEnds(s) \/ StreamFails(s))) => chat' = chat]_vars

\* C31 witness: a new Chat instance has its own stream with a fragment in
\* its placeholder, while a stream of the unmounted instance is still
\* delivering fragments.
C31_Witness ==
    /\ PanelNow = Chat
    /\ Len(chat.messages) = 3
    /\ \E s \in streams : \E o \in streams :
          /\ s.live /\ s.frags = <<(<<"a">>)>>
          /\ chat.messages[s.idx].content = <<"a">>
          /\ ~o.live /\ o.pc = "streaming" /\ Len(o.frags) = 2

\* C32 (study session starts only with text): the processing flag is set
\* exactly while a handleFileChange call is under way; a session starts only
\* from such a call, for a PDF, with text that is not blank; the OCR fallback
\* is entered only with blank extracted text; blank text after OCR, a failed
\* step, and a file that is not a PDF each set the error and start no session.
C32_SessionOnlyWithText ==
    /\ [](upload.isProcessing <=> upload.pc # "idle")
    /\ [](studyContent => ~upload.isProcessing)
    /\ [][/\ (~studyContent /\ studyContent')
             => /\ upload.pc \in {"extracting", "ocr"} /\ upload.file = "pdf"
                /\ ~Blank(upload'.fullText)
                /\ upload.pc = "ocr" <=> upload.ocr
          /\ (upload.pc # "ocr" /\ upload'.pc = "ocr") => Blank(upload'.fullText)
          /\ (upload.pc = "extracting" /\ upload'.pc = "idle" /\ upload'.ocr) => Blank(upload'.fullText)
          /\ (upload.pc = "ocr" /\ upload'.pc = "idle" /\ Blank(upload'.fullText))
             => upload'.appError /\ ~studyContent'
          /\ (upload.pc # "idle" /\ upload'.pc = "idle" /\ ~studyContent') => upload'.appError
          /\ (\E file \in Files \ {"none", "pdf"} : handleFileChange(file))
             => upload'.appError /\ ~studyContent' /\ ~upload'.isProcessing]_vars

\* C32 witness: a session was started with text that only the OCR fallback
\* produced.
C32_Witness ==
    /\ studyContent /\ upload.ocr /\ upload.file = "pdf"
    /\ ~Blank(upload.fullText) /\ ~upload.isProcessing /\ ~upload.appError

\* C33 (quiz score bound): while the Quiz is mounted with questions,
\* 0 <= score <= answers checked so far <= number of questions.
C33_ScoreBound ==
    (PanelNow = Quiz /\ quizQuestions # <<>>)
    => /\ 0 <= quiz.score
       /\ quiz.score <= quiz.checked
       /\ quiz.checked <= Len(quizQuestions)

\* C34 (quiz progression): for a quiz of N questions the current index stays
\* within 0..N-1; it is the number of questions checked and left behind, so
\* it advances by one only from a checked question; the selected answer of a
\* checked question does not change; the results are shown when exactly N
\* questions were checked and left; restart gives the initial values.
C34_QuizProgression ==
    /\ [](LET N == Len(quizQuestions)
          IN /\ quiz.currentIndex \in 0..(N - 1)
             /\ ~quiz.showResults
                => quiz.currentIndex = quiz.checked - (IF quiz.isAnswered THEN 1 ELSE 0)
             /\ quiz.showResults => (quiz.checked = N /\ quiz.currentIndex = N - 1))
    /\ [][/\ quiz'.currentIndex # quiz.currentIndex
             => \/ quiz.isAnswered /\ quiz'.currentIndex = quiz.currentIndex + 1
                \/ restartQuiz
          /\ (quiz.isAnswered /\ quiz'.isAnswered) => quiz'.selectedAnswer = quiz.selectedAnswer
          /\ (~quiz.showResults /\ quiz'.showResults)
             => quiz.isAnswered /\ quiz.checked = Len(quizQuestions)
          /\ restartQuiz
             => /\ quiz'.currentIndex = 0 /\ quiz'.selectedAnswer = "null"
                /\ ~quiz'.isAnswered /\ quiz'.score = 0 /\ ~quiz'.showResults]_vars

\* C34 witness: the results of a quiz of at least two questions are shown,
\* with a right and a wrong answer among those checked.
C34_Witness ==
    /\ PanelNow = Quiz /\ quiz.showResults
    /\ Len(quizQuestions) >= 2 /\ quiz.checked = Len(quizQuestions)
    /\ quiz.score >= 1 /\ quiz.score < quiz.checked

\* C35 (flashcard navigation and audio): for a deck of N cards the current
\* index stays within 0..N-1 whatever the clicks on next and previous, with
\* one or several callbacks pending; each callback moves the index by one
\* card forwards or backwards, from the last card to the first and from the
\* first to the last; and a step that flips the card or changes the card
\* leaves no flashcard source playing and no text marked as playing.
C35_NavigationAndAudio ==
    /\ [](fc.currentIndex \in 0..(Len(flashcards) - 1))
    /\ [][/\ (CardTimer /\ Head(timers).delta = 1)
             => fc'.currentIndex = (IF fc.currentIndex = Len(flashcards) - 1 THEN 0
                                    ELSE fc.currentIndex + 1)
          /\ (CardTimer /\ Head(timers).delta = -1)
             => fc'.currentIndex = (IF fc.currentIndex = 0 THEN Len(flashcards) - 1
                                    ELSE fc.currentIndex - 1)
          /\ fc'.currentIndex # fc.currentIndex => CardTimer
          /\ (fc'.currentIndex # fc.currentIndex \/ fc'.isFlipped # fc.isFlipped)
             => /\ PlayingSources(Flashcards)' = {}
                /\ fc'.currentlyPlaying = Null]_vars

\* C35 witness: in a deck of three cards the first card was left backwards
\* for the last one while its audio was playing, a second click is still
\* pending, and the stopped source has not yet reported its end.
C35_Witness ==
    /\ PanelNow = Flashcards /\ Len(flashcards) = 3
    /\ fc.currentIndex = 2 /\ timers # <<>>
    /\ fc.currentlyPlaying = Null
    /\ \E s \in sources : s.mod = Flashcards /\ s.st = "stopping"

====
